---- MODULE Spec2Model ----
(***************************************************************************)
(* A model of the QMC5883L magnetometer driver (src/QMC5883L.py).          *)
(*                                                                         *)
(* The driver object holds the declination (three fields); every method is *)
(* a synchronous call that may talk to the I2C bus.  One action models one *)
(* method call, from entry to return or raise.  The bus is the environment:*)
(* for each call it supplies the device's register contents and the        *)
(* position of the first bus transaction of the call that fails, if any.   *)
(*                                                                         *)
(* Angles are fixed-point integers, in hundredths of an arc-minute, so     *)
(* that math.floor and round act on exact values; math.atan2 is tabulated  *)
(* for the sampled axis values at that resolution.                         *)
(***************************************************************************)
EXTENDS Integers, Sequences, FiniteSets, TLC

VARIABLES
    declination,      \* self.declination, hundredths of an arc-minute
    declinationDeg,   \* self.declinationDeg
    declinationMin,   \* self.declinationMin
    call,             \* the most recent call: [op, args]
    result,           \* what it returned or raised: [ok, val]
    busLog,           \* the bus transactions that call issued, in order
    lastWrite,        \* the latest register write that succeeded
    declArgs          \* the arguments of the most recent set_declination

vars == <<declination, declinationDeg, declinationMin, call, result, busLog,
          lastWrite, declArgs>>

selfVars == <<declination, declinationDeg, declinationMin>>

----------------------------------------------------------------------------
(* Bounds and sampled inputs.                                              *)

Byte == 0 .. 255

\* Raw 16-bit words the device may hold for each axis.  61440 = 0xF000 is
\* the overflow sentinel (-4096), 55536 = 0xD8F0 is -10000, 65535 is -1.
XWords == {1, 55536, 61440}
YWords == {0, 1, 65535, 61440}
ZWords == {0, 61440}

\* Status bytes; 255 has bits above bit 2 set.
StatusBytes == {0, 1, 2, 4, 255}

\* Arguments of set_declination: (degree, minutes).
DeclArgs == {<<-270, 0>>, <<-10, 0>>, <<5, 30>>, <<180, 0>>}

\* Arguments of the encoders: the supported values, and 77 and the small
\* numbers 0 .. MaxOther, which (but for the scale 2) are not supported.
MaxOther == 3

SupportedRates == {10, 50, 100, 200}
SupportedScales == {2, 8}
SupportedOsr == {512, 256, 128, 64}
OtherInputs == {77} \cup (0 .. MaxOther)
RateInputs == SupportedRates \cup OtherInputs
ScaleInputs == SupportedScales \cup OtherInputs
OsrInputs == SupportedOsr \cup OtherInputs
Modes == {"continuous", "standby"}

----------------------------------------------------------------------------
(* Integer helpers: Python's << and | on non-negative integers.            *)

RECURSIVE Pow2(_)
Pow2(n) == IF n = 0 THEN 1 ELSE 2 * Pow2(n - 1)

Shl(a, n) == a * Pow2(n)

Shr(a, n) == a \div Pow2(n)

RECURSIVE BitOr(_, _)
BitOr(a, b) ==
    IF a = 0 THEN b
    ELSE IF b = 0 THEN a
    ELSE (IF (a % 2 = 1) \/ (b % 2 = 1) THEN 1 ELSE 0)
         + 2 * BitOr(a \div 2, b \div 2)

RECURSIVE BitAnd(_, _)
BitAnd(a, b) ==
    IF a = 0 \/ b = 0 THEN 0
    ELSE (IF (a % 2 = 1) /\ (b % 2 = 1) THEN 1 ELSE 0)
         + 2 * BitAnd(a \div 2, b \div 2)

----------------------------------------------------------------------------
(* Class constants.                                                        *)

DXRA == 1
DXRB == 0
DYRA == 3
DYRB == 2
DZRA == 5
DZRB == 4
CR == 9
SR == 6
PERIOD == 11

MEAS_CONT == 1
MEAS_IDLE == 0

ODR0 == 0
ODR1 == 1
ODR2 == 16
ODR3 == 17

RNG0 == 0
RNG1 == 1

OSR0 == 0
OSR1 == 1
OSR2 == 16
OSR3 == 17

Registers == {DXRA, DXRB, DYRA, DYRB, DZRA, DZRB, SR}

----------------------------------------------------------------------------
(* Outcomes of a computation: the bus transactions so far, and either a    *)
(* returned value or the name of the exception raised.                     *)

Return(log, v) == [log |-> log, ok |-> TRUE, val |-> v]

Raise(log, e) == [log |-> log, ok |-> FALSE, val |-> e]

None == << >>

Some(v) == <<v>>

NoByte == 0 - 1

Txn(op, register, value, ok) ==
    [op |-> op, reg |-> register, val |-> value, ok |-> ok]

\* The bus during one call: the device's registers and the position (from
\* 1) of the first transaction of the call that fails, 0 when none does.
Bus(data, failAt) == [data |-> data, failAt |-> failAt]

read_byte_data(bus, log, register) ==
    IF bus.failAt = Len(log) + 1
    THEN Raise(Append(log, Txn("read", register, NoByte, FALSE)), "IOError")
    ELSE Return(Append(log, Txn("read", register, bus.data[register], TRUE)),
                bus.data[register])

write_byte_data(bus, log, register, value) ==
    IF bus.failAt = Len(log) + 1
    THEN Raise(Append(log, Txn("write", register, value, FALSE)), "IOError")
    ELSE Return(Append(log, Txn("write", register, value, TRUE)), None)

----------------------------------------------------------------------------
(* Register codec.                                                         *)

set_continuous_mode == MEAS_CONT

set_standby_mode == MEAS_IDLE

\* A slip in the fallback branch: the 10 Hz encoding instead of the 50 Hz.
set_output_data_rate_default10(value) ==
    IF value = 10 THEN Shl(ODR0, 3)
    ELSE IF value = 50 THEN Shl(ODR1, 3)
    ELSE IF value = 100 THEN Shl(ODR2, 3)
    ELSE IF value = 200 THEN Shl(ODR3, 3)
    ELSE Shl(ODR0, 3)

set_output_data_rate(value) ==
    IF value = 10 THEN Shl(ODR0, 3)
    ELSE IF value = 50 THEN Shl(ODR1, 3)
    ELSE IF value = 100 THEN Shl(ODR2, 3)
    ELSE IF value = 200 THEN Shl(ODR3, 3)
    ELSE Shl(ODR1, 3)

set_full_scale(value) ==
    IF value = 2 THEN Shl(RNG0, 5)
    ELSE IF value = 8 THEN Shl(RNG1, 5)
    ELSE Shl(RNG1, 5)

set_over_sampling_ratio(value) ==
    IF value = 512 THEN Shl(OSR0, 7)
    ELSE IF value = 256 THEN Shl(OSR1, 7)
    ELSE IF value = 128 THEN Shl(OSR2, 7)
    ELSE IF value = 64 THEN Shl(OSR3, 7)
    ELSE Shl(OSR1, 7)

set_mode(mode) ==
    IF mode = "continuous" THEN set_continuous_mode ELSE set_standby_mode

\* The control value as the caller builds it.
control_value(mode, rate, scale, osr) ==
    BitOr(BitOr(BitOr(set_mode(mode), set_output_data_rate(rate)),
                set_full_scale(scale)),
          set_over_sampling_ratio(osr))

----------------------------------------------------------------------------
(* Axis decoder.                                                           *)

\* A slip in the combination: the low byte shifted, the high byte not.
read_i2c_word_swapped(bus, log, high_register, low_register) ==
    LET low_data == read_byte_data(bus, log, low_register) IN
    IF ~low_data.ok THEN low_data
    ELSE LET high_data == read_byte_data(bus, low_data.log, high_register) IN
         IF ~high_data.ok THEN high_data
         ELSE LET read_data == BitOr(Shl(low_data.val, 8), high_data.val) IN
              IF read_data >= 32768
              THEN Return(high_data.log, 0 - ((65535 - read_data) + 1))
              ELSE Return(high_data.log, read_data)

read_i2c_word(bus, log, high_register, low_register) ==
    LET low_data == read_byte_data(bus, log, low_register) IN
    IF ~low_data.ok THEN low_data
    ELSE LET high_data == read_byte_data(bus, low_data.log, high_register) IN
         IF ~high_data.ok THEN high_data
         ELSE LET read_data == BitOr(Shl(high_data.val, 8), low_data.val) IN
              IF read_data >= 32768
              THEN Return(high_data.log, 0 - ((65535 - read_data) + 1))
              ELSE Return(high_data.log, read_data)

\* Python's round(value, ndigits) of an integer value.
round_ndigits(value, ndigits) ==
    LET p == 10 ^ ndigits IN (value * p) \div p

\* A slip in the sentinel: 4096 instead of -4096.
axis_or_none_positive(mag) ==
    IF mag = 4096 THEN None ELSE Some(round_ndigits(mag, 4))

axis_or_none(mag) ==
    IF mag = 0 - 4096 THEN None ELSE Some(round_ndigits(mag, 4))

\* A copy-and-paste slip: the Y word read from the X registers.
get_axes_rereads_x(bus, log) ==
    LET mag_x == read_i2c_word(bus, log, DXRA, DXRB) IN
    IF ~mag_x.ok THEN mag_x
    ELSE LET mag_y == read_i2c_word(bus, mag_x.log, DXRA, DXRB) IN
         IF ~mag_y.ok THEN mag_y
         ELSE LET mag_z == read_i2c_word(bus, mag_y.log, DZRA, DZRB) IN
              IF ~mag_z.ok THEN mag_z
              ELSE Return(mag_z.log,
                          [x |-> axis_or_none(mag_x.val),
                           y |-> axis_or_none(mag_y.val),
                           z |-> axis_or_none(mag_z.val)])

get_axes(bus, log) ==
    LET mag_x == read_i2c_word(bus, log, DXRA, DXRB) IN
    IF ~mag_x.ok THEN mag_x
    ELSE LET mag_y == read_i2c_word(bus, mag_x.log, DYRA, DYRB) IN
         IF ~mag_y.ok THEN mag_y
         ELSE LET mag_z == read_i2c_word(bus, mag_y.log, DZRA, DZRB) IN
              IF ~mag_z.ok THEN mag_z
              ELSE Return(mag_z.log,
                          [x |-> axis_or_none(mag_x.val),
                           y |-> axis_or_none(mag_y.val),
                           z |-> axis_or_none(mag_z.val)])

----------------------------------------------------------------------------
(* Status decoder.                                                         *)

read_status_register(bus, log) ==
    LET data_status == read_byte_data(bus, log, SR) IN
    IF ~data_status.ok THEN data_status
    ELSE Return(data_status.log,
                <<BitAnd(data_status.val, 1),
                  BitAnd(Shr(data_status.val, 1), 1),
                  BitAnd(Shr(data_status.val, 2), 1)>>)

----------------------------------------------------------------------------
(* Heading calculator.  An angle, in radians or in degrees, is the integer *)
(* number of hundredths of an arc-minute it measures.                      *)

ArcMinute == 10 * 10

Degree == 60 * ArcMinute

TwoPi == 360 * Degree

\* math.atan2(y, x) for the sampled axis values: exact on the axes and the
\* diagonals, and atan2(1, -10000) = 179 deg 59.6562' to the resolution.
atan2(y, x) ==
    IF y = 0 THEN (IF x >= 0 THEN 0 ELSE 180 * Degree)
    ELSE IF x = 0 THEN (IF y > 0 THEN 90 * Degree ELSE 0 - 90 * Degree)
    ELSE IF x = y THEN (IF x > 0 THEN 45 * Degree ELSE 0 - 135 * Degree)
    ELSE IF x = 0 - y THEN (IF x > 0 THEN 0 - 45 * Degree ELSE 135 * Degree)
    ELSE IF x = 0 - 10000 /\ y = 1 THEN 180 * Degree - 34
    ELSE IF x = 0 - 10000 /\ y = 0 - 1 THEN 34 - 180 * Degree
    ELSE 0

\* Python 3's round() of units / ArcMinute: to the nearest integer, a tie
\* to the even one.
round_minutes(units) ==
    LET q == units \div ArcMinute
        r == units % ArcMinute
    IN  IF 2 * r > ArcMinute THEN q + 1
        ELSE IF 2 * r < ArcMinute THEN q
        ELSE IF q % 2 = 0 THEN q ELSE q + 1

\* "Correct for reversed heading", then "check for wrap and compensate".
normalize(heading_rad) ==
    LET reversed == IF heading_rad < 0 THEN heading_rad + TwoPi
                    ELSE heading_rad
    IN  IF reversed > TwoPi THEN reversed - TwoPi ELSE reversed

\* A guess instead of a failure: an absent axis taken as zero.
get_heading_zero_default(bus, log, decl) ==
    LET mag_data == get_axes(bus, log) IN
    IF ~mag_data.ok THEN mag_data
    ELSE LET y == IF mag_data.val.y = None THEN 0 ELSE mag_data.val.y[1]
             x == IF mag_data.val.x = None THEN 0 ELSE mag_data.val.x[1]
             heading_deg == normalize(atan2(y, x) + decl)
             degrees == heading_deg \div Degree
             minutes == round_minutes(heading_deg - degrees * Degree)
         IN  Return(mag_data.log, <<degrees, minutes>>)

get_heading(bus, log, decl) ==
    LET mag_data == get_axes(bus, log) IN
    IF ~mag_data.ok THEN mag_data
    ELSE IF mag_data.val.y = None \/ mag_data.val.x = None
    THEN Raise(mag_data.log, "TypeError")
    ELSE LET heading_deg ==
                 normalize(atan2(mag_data.val.y[1], mag_data.val.x[1]) + decl)
             degrees == heading_deg \div Degree
             minutes == round_minutes(heading_deg - degrees * Degree)
         IN  Return(mag_data.log, <<degrees, minutes>>)

\* A slip in the offset: the minutes left out.
declination_offset_whole_degrees(degree, minutes) == degree * Degree

\* (degree + minutes / 60) * (math.pi / 180)
declination_offset(degree, minutes) == degree * Degree + minutes * ArcMinute

get_declination_string(deg, min) ==
    ToString(deg) \o "\\u00b0 " \o ToString(min) \o "'"

----------------------------------------------------------------------------
(* State machine.                                                          *)

NoCall == [op |-> "init", args |-> << >>]

Init ==
    /\ declination = 0
    /\ declinationDeg = 0
    /\ declinationMin = 0
    /\ call = NoCall
    /\ result = [ok |-> TRUE, val |-> None]
    /\ busLog = << >>
    /\ lastWrite = None
    /\ declArgs = <<0, 0>>

Split(word) == [hi |-> word \div 256, lo |-> word % 256]

\* The device's registers while it holds the raw words x, y, z and the
\* status byte s.
DeviceData(x, y, z, s) ==
    [r \in Registers |->
        IF r = DXRA THEN Split(x).hi
        ELSE IF r = DXRB THEN Split(x).lo
        ELSE IF r = DYRA THEN Split(y).hi
        ELSE IF r = DYRB THEN Split(y).lo
        ELSE IF r = DZRA THEN Split(z).hi
        ELSE IF r = DZRB THEN Split(z).lo
        ELSE s]

Finish(op, args, out) ==
    /\ call' = [op |-> op, args |-> args]
    /\ result' = [ok |-> out.ok, val |-> out.val]
    /\ busLog' = out.log

Call_get_axes ==
    \E x \in XWords, y \in YWords, z \in ZWords, failAt \in 0 .. 6 :
        /\ Finish("get_axes", << >>,
                  get_axes(Bus(DeviceData(x, y, z, 0), failAt), << >>))
        /\ UNCHANGED <<selfVars, lastWrite, declArgs>>

Call_read_status_register ==
    \E s \in StatusBytes, failAt \in 0 .. 1 :
        /\ Finish("read_status_register", << >>,
                  read_status_register(Bus(DeviceData(0, 0, 0, s), failAt),
                                       << >>))
        /\ UNCHANGED <<selfVars, lastWrite, declArgs>>

Call_get_heading ==
    \E x \in XWords, y \in YWords, z \in ZWords, failAt \in 0 .. 6 :
        /\ Finish("get_heading", << >>,
                  get_heading(Bus(DeviceData(x, y, z, 0), failAt), << >>,
                              declination))
        /\ UNCHANGED <<selfVars, lastWrite, declArgs>>

Call_set_declination ==
    \E a \in DeclArgs :
      LET degree == a[1]
          minutes == a[2]
      IN
        /\ declinationDeg' = degree
        /\ declinationMin' = minutes
        /\ declination' = declination_offset(degree, minutes)
        /\ declArgs' = <<degree, minutes>>
        /\ Finish("set_declination", <<degree, minutes>>, Return(<< >>, None))
        /\ UNCHANGED lastWrite

Call_get_declination_string ==
    /\ Finish("get_declination_string", << >>,
              Return(<< >>,
                     get_declination_string(declinationDeg, declinationMin)))
    /\ UNCHANGED <<selfVars, lastWrite, declArgs>>

\* The latest register write the bus carried out, after a call's log.
Written(log, before) ==
    LET done == SelectSeq(log, LAMBDA t : t.op = "write" /\ t.ok)
    IN  IF done = << >> THEN before
        ELSE Some(<<done[Len(done)].reg, done[Len(done)].val>>)

reset_period_register(bus, log) == write_byte_data(bus, log, PERIOD, 1)

write_control_register(bus, log, value) == write_byte_data(bus, log, CR, value)

Call_reset_period_register ==
    \E failAt \in 0 .. 1 :
        LET out == reset_period_register(Bus(DeviceData(0, 0, 0, 0), failAt),
                                         << >>)
        IN  /\ Finish("reset_period_register", << >>, out)
            /\ lastWrite' = Written(out.log, lastWrite)
            /\ UNCHANGED <<selfVars, declArgs>>

\* The control values the driver is handed: those of the default
\* configuration, in continuous and in standby mode.
DriverControlValues == {control_value(m, 50, 8, 256) : m \in Modes}

Call_write_control_register ==
    \E value \in DriverControlValues, failAt \in 0 .. 1 :
        LET out == write_control_register(Bus(DeviceData(0, 0, 0, 0), failAt),
                                          << >>, value)
        IN  /\ Finish("write_control_register", <<value>>, out)
            /\ lastWrite' = Written(out.log, lastWrite)
            /\ UNCHANGED <<selfVars, declArgs>>

Call_set_continuous_mode ==
    /\ Finish("set_continuous_mode", << >>,
              Return(<< >>, set_continuous_mode))
    /\ UNCHANGED <<selfVars, lastWrite, declArgs>>

Call_set_standby_mode ==
    /\ Finish("set_standby_mode", << >>, Return(<< >>, set_standby_mode))
    /\ UNCHANGED <<selfVars, lastWrite, declArgs>>

Call_set_output_data_rate ==
    \E value \in RateInputs :
        /\ Finish("set_output_data_rate", <<value>>,
                  Return(<< >>, set_output_data_rate(value)))
        /\ UNCHANGED <<selfVars, lastWrite, declArgs>>

Call_set_full_scale ==
    \E value \in ScaleInputs :
        /\ Finish("set_full_scale", <<value>>,
                  Return(<< >>, set_full_scale(value)))
        /\ UNCHANGED <<selfVars, lastWrite, declArgs>>

Call_set_over_sampling_ratio ==
    \E value \in OsrInputs :
        /\ Finish("set_over_sampling_ratio", <<value>>,
                  Return(<< >>, set_over_sampling_ratio(value)))
        /\ UNCHANGED <<selfVars, lastWrite, declArgs>>

\* The caller's expression mode | rate | scale | osr.
Call_control_value ==
    \E m \in Modes, rate \in RateInputs, scale \in ScaleInputs,
       osr \in OsrInputs :
        /\ Finish("control_value", <<m, rate, scale, osr>>,
                  Return(<< >>, control_value(m, rate, scale, osr)))
        /\ UNCHANGED <<selfVars, lastWrite, declArgs>>

\* The first call on a new driver is read_i2c_word on one axis's register
\* pair, the device holding any two bytes there.
AxisRegisters == {<<DXRA, DXRB>>, <<DYRA, DYRB>>, <<DZRA, DZRB>>}

Call_read_i2c_word ==
    /\ call.op = "init"
    /\ \E pair \in AxisRegisters, high \in Byte, low \in Byte,
          failAt \in 0 .. 2 :
        /\ Finish("read_i2c_word", pair,
                  read_i2c_word(
                      Bus([r \in Registers |->
                              IF r = pair[1] THEN high
                              ELSE IF r = pair[2] THEN low ELSE 0],
                          failAt),
                      << >>, pair[1], pair[2]))
        /\ UNCHANGED <<selfVars, lastWrite, declArgs>>

Encoders ==
    \/ Call_set_continuous_mode
    \/ Call_set_standby_mode
    \/ Call_set_output_data_rate
    \/ Call_set_full_scale
    \/ Call_set_over_sampling_ratio

\* The driver: every method, called in any order.
Next ==
    \/ Call_get_axes
    \/ Call_read_status_register
    \/ Call_get_heading
    \/ Call_set_declination
    \/ Call_get_declination_string
    \/ Call_reset_period_register
    \/ Call_write_control_register
    \/ Encoders

Spec == Init /\ [][Next]_vars

\* The register codec alone: the encoders and the caller's combination.
NextCodec ==
    \/ Encoders
    \/ Call_control_value

SpecCodec == Init /\ [][NextCodec]_vars

\* The word decoder alone, over every pair of bytes.
NextWord == Call_read_i2c_word

SpecWord == Init /\ [][NextWord]_vars

----------------------------------------------------------------------------
(* Properties.                                                             *)

\* The byte a call's log shows the bus returned for a register.
ByteRead(log, register) ==
    LET i == CHOOSE j \in 1 .. Len(log) :
                 log[j].op = "read" /\ log[j].reg = register /\ log[j].ok
    IN  log[i].val

\* Two's-complement value of a 16-bit word.
decode(v) == IF v < 32768 THEN v ELSE v - 65536

Decoded(log, high_register, low_register) ==
    decode(ByteRead(log, high_register) * 256 + ByteRead(log, low_register))

AllReadsOk(log, n) ==
    /\ Len(log) = n
    /\ \A i \in 1 .. n : log[i].op = "read" /\ log[i].ok

\* C1: read_i2c_word(high_register, low_register) returns decode(v) for
\* v = (high << 8) | low, high being the byte read from the high register
\* and low the byte read from the low register; the result lies in
\* [-32768, 32767]; decode(0x8000) = -32768, decode(0xFFFF) = -1,
\* decode(0x0000) = 0, decode(0x7FFF) = 32767.
C1_ReadWordDecodes ==
    (call.op = "read_i2c_word" /\ result.ok) =>
        LET high == ByteRead(busLog, call.args[1])
            low == ByteRead(busLog, call.args[2])
            v == high * 256 + low
        IN  /\ AllReadsOk(busLog, 2)
            /\ result.val = decode(v)
            /\ result.val \in -32768 .. 32767
            /\ (high = 128 /\ low = 0) => result.val = -32768
            /\ (high = 255 /\ low = 255) => result.val = -1
            /\ (high = 0 /\ low = 0) => result.val = 0
            /\ (high = 127 /\ low = 255) => result.val = 32767

C1_Witness ==
    /\ call.op = "read_i2c_word"
    /\ result.ok
    /\ ByteRead(busLog, call.args[1]) = 128
    /\ ByteRead(busLog, call.args[2]) = 1
    /\ result.val = -32767

AxisAsDecoded(field, d) ==
    IF d = -4096 THEN field = None ELSE field = Some(d)

\* C2: in every AxisReading get_axes returns, each of x, y, z is None
\* exactly when that axis's decoded word is -4096 and is the decoded value
\* otherwise, whatever the other two axes hold; -4096 is never returned.
C2_SentinelIsAbsent ==
    (call.op = "get_axes" /\ result.ok) =>
        /\ AllReadsOk(busLog, 6)
        /\ AxisAsDecoded(result.val.x, Decoded(busLog, DXRA, DXRB))
        /\ AxisAsDecoded(result.val.y, Decoded(busLog, DYRA, DYRB))
        /\ AxisAsDecoded(result.val.z, Decoded(busLog, DZRA, DZRB))
        /\ Some(-4096) \notin {result.val.x, result.val.y, result.val.z}

C2_Witness ==
    /\ call.op = "get_axes"
    /\ result.ok
    /\ Decoded(busLog, DYRA, DYRB) = -4096
    /\ result.val = [x |-> Some(-10000), y |-> None, z |-> Some(0)]

WroteControl(log) ==
    \E i \in 1 .. Len(log) :
        log[i].op = "write" /\ log[i].reg = CR /\ log[i].ok

\* C3: every write to the control register (0x09) is preceded, since the
\* previous control-register write, by a write of 0x01 to the reset-period
\* register (0x0B): the register written last before it is the
\* reset-period register.
C3_PeriodBeforeControl ==
    [][(call'.op = "write_control_register" /\ WroteControl(busLog'))
           => lastWrite = Some(<<PERIOD, 1>>)]_vars

Supported(args) ==
    /\ args[1] \in Modes
    /\ args[2] \in SupportedRates
    /\ args[3] \in SupportedScales
    /\ args[4] \in SupportedOsr

SupportedConfigs == Modes \X SupportedRates \X SupportedScales \X SupportedOsr

\* C4: for every supported configuration the control value
\* mode | rate | scale | osr lies in 0..255.
C4_ControlValueIsByte ==
    (call.op = "control_value" /\ Supported(call.args)) =>
        result.val \in Byte

RECURSIVE OrAll(_)
OrAll(S) ==
    IF S = {} THEN 0
    ELSE LET v == CHOOSE w \in S : TRUE IN BitOr(v, OrAll(S \ {v}))

ModeBits == OrAll({set_mode(m) : m \in Modes})
RateBits == OrAll({set_output_data_rate(r) : r \in SupportedRates})
ScaleBits == OrAll({set_full_scale(s) : s \in SupportedScales})
OsrBits == OrAll({set_over_sampling_ratio(o) : o \in SupportedOsr})

\* C5: the bits the four encodings can set are pairwise disjoint, within
\* each field the supported inputs encode to distinct values, and no two
\* different supported configurations produce the same control value.
C5_FieldsDisjoint ==
    (call.op = "control_value" /\ Supported(call.args)) =>
        /\ BitAnd(ModeBits, RateBits) = 0
        /\ BitAnd(ModeBits, ScaleBits) = 0
        /\ BitAnd(ModeBits, OsrBits) = 0
        /\ BitAnd(RateBits, ScaleBits) = 0
        /\ BitAnd(RateBits, OsrBits) = 0
        /\ BitAnd(ScaleBits, OsrBits) = 0
        /\ \A c \in SupportedConfigs :
               c # call.args =>
                   control_value(c[1], c[2], c[3], c[4]) # result.val

\* C6: get_heading raises instead of returning a bearing when the reading
\* it obtained has x or y absent; with x and y present it returns a
\* bearing, also when z is absent.
C6_HeadingNeedsXY ==
    (call.op = "get_heading" /\ AllReadsOk(busLog, 6)) =>
        LET x == Decoded(busLog, DXRA, DXRB)
            y == Decoded(busLog, DYRA, DYRB)
        IN  IF x = -4096 \/ y = -4096
            THEN ~result.ok /\ result.val = "TypeError"
            ELSE result.ok /\ Len(result.val) = 2

C6_Witness ==
    /\ call.op = "get_heading"
    /\ AllReadsOk(busLog, 6)
    /\ Decoded(busLog, DXRA, DXRB) = -4096
    /\ Decoded(busLog, DYRA, DYRB) = 1
    /\ ~result.ok

\* C7: with x and y present, the (degrees, minutes) get_heading returns
\* satisfy 0 <= degrees < 360 and 0 <= minutes < 60.
C7_HeadingInRange ==
    (call.op = "get_heading" /\ result.ok) =>
        /\ 0 <= result.val[1] /\ result.val[1] < 360
        /\ 0 <= result.val[2] /\ result.val[2] < 60

DefaultOf(value, supported, default) ==
    IF value \in supported THEN value ELSE default

\* C8: each encoder returns, for an input outside its supported set, what
\* it returns for its default (50, 8, 256); a control value built with an
\* out-of-set input equals the one built with that field's default.
C8_EncodersDefault ==
    /\ (call.op = "set_output_data_rate" /\ call.args[1] \notin SupportedRates)
           => result.val = set_output_data_rate(50)
    /\ (call.op = "set_full_scale" /\ call.args[1] \notin SupportedScales)
           => result.val = set_full_scale(8)
    /\ (call.op = "set_over_sampling_ratio" /\ call.args[1] \notin SupportedOsr)
           => result.val = set_over_sampling_ratio(256)
    /\ call.op = "control_value" =>
           result.val = control_value(call.args[1],
                                      DefaultOf(call.args[2], SupportedRates, 50),
                                      DefaultOf(call.args[3], SupportedScales, 8),
                                      DefaultOf(call.args[4], SupportedOsr, 256))

C8_Witness ==
    /\ call.op = "control_value"
    /\ call.args = <<"continuous", 77, 8, 256>>
    /\ result.val = control_value("continuous", 50, 8, 256)

DataRegisters == {DXRA, DXRB, DYRA, DYRB, DZRA, DZRB}

\* C9: get_axes issues exactly six bus reads, one per data register and
\* none twice, when all succeed; when a read fails the failure propagates,
\* the failed read is the call's last bus operation and is not retried, no
\* AxisReading is returned, and the stored declination is unchanged.
C9_AxesAllOrNothing ==
    [][call'.op = "get_axes" =>
          /\ UNCHANGED selfVars
          /\ \A i \in 1 .. Len(busLog') :
                 busLog'[i].op = "read" /\ busLog'[i].reg \in DataRegisters
          /\ \A i, j \in 1 .. Len(busLog') :
                 i # j => busLog'[i].reg # busLog'[j].reg
          /\ IF result'.ok
             THEN /\ AllReadsOk(busLog', 6)
                  /\ DOMAIN result'.val = {"x", "y", "z"}
             ELSE /\ result'.val = "IOError"
                  /\ Len(busLog') \in 1 .. 6
                  /\ ~busLog'[Len(busLog')].ok
                  /\ \A i \in 1 .. Len(busLog') - 1 : busLog'[i].ok]_vars

C9_Witness ==
    /\ call.op = "get_axes"
    /\ ~result.ok
    /\ Len(busLog) = 4
    /\ declArgs = <<5, 30>>

\* C10: after any sequence of calls the stored degree and minute are the
\* arguments of the latest set_declination, (0, 0) when there was none,
\* the stored offset is (degree + minute / 60) degrees, and only
\* set_declination changes any of the three.
C10_DeclinationFrame ==
    /\ [](/\ declinationDeg = declArgs[1]
          /\ declinationMin = declArgs[2]
          /\ 60 * declination = (60 * declArgs[1] + declArgs[2]) * Degree)
    /\ [][call'.op # "set_declination" => UNCHANGED selfVars]_vars

C10_Witness ==
    /\ call.op = "get_heading"
    /\ declArgs = <<5, 30>>
    /\ <<declinationDeg, declinationMin>> = <<5, 30>>
    /\ 2 * declination = 11 * Degree

====
